---- MODULE Spec2Model ----
(***************************************************************************)
(* Model of go_game/coordinates.py: the conversions between the MiniGo     *)
(* coordinate (row, column) / None and the flat, SGF, KGS and sgfmill      *)
(* notations, all of which read the module-level global go.BOARD_SIZE at   *)
(* call time.                                                              *)
(*                                                                         *)
(* Python values are tagged records, so that values of different Python    *)
(* types can be compared: None, an int, a str (a sequence of one-character *)
(* strings), a 2-tuple of ints, and a raised exception.                    *)
(*                                                                         *)
(* The second part models GoTrainer.train_and_evaluate of trainer.py: the  *)
(* epoch / sub-epoch loop, the checkpoints and the metrics files.          *)
(***************************************************************************)
EXTENDS Integers, Sequences, FiniteSets, TLC

VARIABLES BOARD_SIZE, want, notation, arg, mid, out, pc

\* the state of the coordinate callers
cvars == <<BOARD_SIZE, want, notation, arg, mid, out, pc>>

VARIABLES
  hp,                 \* hyper-parameters of the run
  restore_from,       \* argument of train_and_evaluate
  tpc,                \* position in train_and_evaluate
  begin_at_epoch, epoch,
  sub_i,              \* the loop index i of the sub-epoch loop
  split_train_steps, split_eval_steps,
  best_eval_p_acc, eval_p_acc,
  train_iterator, eval_iterator,   \* initialisations and batches consumed
  files,              \* checkpoints and metrics files of experiment_dir
  trace,              \* operations of the current sub-epoch, in order
  seen               \* history: accuracies and sub-epochs seen in this call

\* the state of the trainer
tvars == <<hp, restore_from, tpc, begin_at_epoch, epoch, sub_i,
           split_train_steps, split_eval_steps, best_eval_p_acc, eval_p_acc,
           train_iterator, eval_iterator, files, trace, seen>>

vars == <<cvars, tvars>>

(***************************************************************************)
(* Bounds of the model.                                                    *)
(***************************************************************************)
\* largest board size explored (one more than the 52 letters of _SGF_COLUMNS)
MaxBoard == 53
\* how far outside the board / the flat range the inputs reach
Margin == 1
\* largest board size of the two interleaved callers
MaxShared == 3
\* trainer: largest train_size, dev_size, batch_size, eval_every, num_epochs
MaxTrainSize == 3
MaxDevSize == 2
MaxBatchSize == 2
MaxEvalEvery == 2
MaxEpochs == 2
\* trainer: accuracies are the fractions 0/MaxAcc .. MaxAcc/MaxAcc
MaxAcc == 2

(***************************************************************************)
(* Python values.                                                          *)
(***************************************************************************)
None == [t |-> "None"]
MkTuple(r, c) == [t |-> "tuple", row |-> r, col |-> c]
MkInt(i) == [t |-> "int", i |-> i]
MkStr(s) == [t |-> "str", s |-> s]
Raise(e) == [t |-> "raise", exc |-> e]
NoCall == [t |-> "nocall"]

IsNone(v) == v.t = "None"
IsTuple(v) == v.t = "tuple"
IsInt(v) == v.t = "int"
IsStr(v) == v.t = "str"
IsRaise(v) == v.t = "raise"

(***************************************************************************)
(* The two column alphabets.                                               *)
(***************************************************************************)
_SGF_COLUMNS ==
  << "a", "b", "c", "d", "e", "f", "g", "h", "i", "j", "k", "l", "m",
     "n", "o", "p", "q", "r", "s", "t", "u", "v", "w", "x", "y", "z",
     "A", "B", "C", "D", "E", "F", "G", "H", "I", "J", "K", "L", "M",
     "N", "O", "P", "Q", "R", "S", "T", "U", "V", "W", "X", "Y", "Z" >>

_KGS_COLUMNS ==
  << "A", "B", "C", "D", "E", "F", "G", "H", "J", "K", "L", "M", "N",
     "O", "P", "Q", "R", "S", "T", "U", "V", "W", "X", "Y", "Z" >>

Digits == << "0", "1", "2", "3", "4", "5", "6", "7", "8", "9" >>

(***************************************************************************)
(* Python built-ins used by the conversions.                               *)
(***************************************************************************)
\* s[i] on a str: 0-based, negative indices count from the end.
InRange(s, i) == i >= -Len(s) /\ i < Len(s)
GetItem(s, i) == IF i >= 0 THEN s[i + 1] ELSE s[Len(s) + i + 1]

\* s.index(ch): 0-based position of the first occurrence.
Contains(s, ch) == \E k \in 1..Len(s) : s[k] = ch
Index(s, ch) ==
  (CHOOSE k \in 1..Len(s) : s[k] = ch /\ \A j \in 1..(k - 1) : s[j] # ch) - 1

\* str.upper(), character by character: a-z are the first 26 letters of
\* _SGF_COLUMNS and A-Z the last 26.
UpperChar(ch) ==
  IF Contains(SubSeq(_SGF_COLUMNS, 1, 26), ch)
    THEN _SGF_COLUMNS[Index(_SGF_COLUMNS, ch) + 27]
    ELSE ch
Upper(s) == [k \in 1..Len(s) |-> UpperChar(s[k])]

\* '{}'.format(n) of an int: decimal digits, '-' in front of a negative.
RECURSIVE NatToStr(_)
NatToStr(n) ==
  IF n < 10 THEN << Digits[n + 1] >>
  ELSE Append(NatToStr(n \div 10), Digits[(n % 10) + 1])
IntToStr(n) == IF n < 0 THEN << "-" >> \o NatToStr(-n) ELSE NatToStr(n)

\* int(s) of a str: surrounding whitespace is stripped; then an optional
\* sign followed by decimal digits, with single underscores allowed between
\* digits (leading zeros allowed); anything else raises ValueError.
RECURSIVE LStrip(_)
LStrip(s) == IF Len(s) > 0 /\ s[1] = " " THEN LStrip(Tail(s)) ELSE s
RECURSIVE RStrip(_)
RStrip(s) ==
  IF Len(s) > 0 /\ s[Len(s)] = " " THEN RStrip(SubSeq(s, 1, Len(s) - 1)) ELSE s
Strip(s) == RStrip(LStrip(s))

IsDigit(ch) == Contains(Digits, ch)
AllDigits(s) ==
  /\ Len(s) > 0
  /\ IsDigit(s[1]) /\ IsDigit(s[Len(s)])
  /\ \A k \in 1..Len(s) : IsDigit(s[k]) \/ s[k] = "_"
  /\ \A k \in 1..(Len(s) - 1) : ~(s[k] = "_" /\ s[k + 1] = "_")
Unsigned(s) == IF Len(s) > 0 /\ s[1] \in {"-", "+"} THEN Tail(s) ELSE s
IsIntLiteral(s) == AllDigits(Unsigned(Strip(s)))
RECURSIVE DigitsToNat(_)
DigitsToNat(s) ==
  IF Len(s) = 0 THEN 0
  ELSE 10 * DigitsToNat(SubSeq(s, 1, Len(s) - 1)) + Index(Digits, s[Len(s)])
StrToInt(s) ==
  LET t == Strip(s)
      n == DigitsToNat(SelectSeq(Unsigned(t), IsDigit)) IN
  IF t[1] = "-" THEN 0 - n ELSE n

(***************************************************************************)
(* The eight conversions.  N is the value of go.BOARD_SIZE that the call   *)
(* reads.                                                                  *)
(***************************************************************************)
from_flat_colrow(flat, N) ==
  IF flat.i = N * N THEN None
  ELSE MkTuple(flat.i % N, flat.i \div N)

from_flat(flat, N) ==
  IF flat.i = N * N THEN None
  ELSE MkTuple(flat.i \div N, flat.i % N)

to_flat_swapped(coord, N) ==
  IF IsNone(coord) THEN MkInt(N * N)
  ELSE MkInt(N * coord.col + coord.row)

to_flat_passlast(coord, N) ==
  IF IsNone(coord) THEN MkInt(N * N - 1)
  ELSE MkInt(N * coord.row + coord.col)

to_flat(coord, N) ==
  IF IsNone(coord) THEN MkInt(N * N)
  ELSE MkInt(N * coord.row + coord.col)

from_sgf_rowcol(sgfc, N) ==
  IF IsNone(sgfc) \/ sgfc = MkStr(<< >>) THEN None
  ELSE IF ~InRange(sgfc.s, 1) THEN Raise("IndexError")
  ELSE IF ~Contains(_SGF_COLUMNS, GetItem(sgfc.s, 0)) THEN Raise("ValueError")
  ELSE IF ~Contains(_SGF_COLUMNS, GetItem(sgfc.s, 1)) THEN Raise("ValueError")
  ELSE MkTuple(Index(_SGF_COLUMNS, GetItem(sgfc.s, 0)),
               Index(_SGF_COLUMNS, GetItem(sgfc.s, 1)))

from_sgf(sgfc, N) ==
  IF IsNone(sgfc) \/ sgfc = MkStr(<< >>) THEN None
  ELSE IF ~InRange(sgfc.s, 1) THEN Raise("IndexError")
  ELSE IF ~Contains(_SGF_COLUMNS, GetItem(sgfc.s, 1)) THEN Raise("ValueError")
  ELSE IF ~Contains(_SGF_COLUMNS, GetItem(sgfc.s, 0)) THEN Raise("ValueError")
  ELSE MkTuple(Index(_SGF_COLUMNS, GetItem(sgfc.s, 1)),
               Index(_SGF_COLUMNS, GetItem(sgfc.s, 0)))

to_sgf_rowcol(coord, N) ==
  IF IsNone(coord) THEN MkStr(<< >>)
  ELSE IF ~InRange(_SGF_COLUMNS, coord.row) THEN Raise("IndexError")
  ELSE IF ~InRange(_SGF_COLUMNS, coord.col) THEN Raise("IndexError")
  ELSE MkStr(<< GetItem(_SGF_COLUMNS, coord.row), GetItem(_SGF_COLUMNS, coord.col) >>)

to_sgf(coord, N) ==
  IF IsNone(coord) THEN MkStr(<< >>)
  ELSE IF ~InRange(_SGF_COLUMNS, coord.col) THEN Raise("IndexError")
  ELSE IF ~InRange(_SGF_COLUMNS, coord.row) THEN Raise("IndexError")
  ELSE MkStr(<< GetItem(_SGF_COLUMNS, coord.col), GetItem(_SGF_COLUMNS, coord.row) >>)

from_kgs_fromtop(kgsc, N) ==
  IF kgsc = MkStr(<< "p", "a", "s", "s" >>) THEN None
  ELSE LET u == Upper(kgsc.s) IN
    IF ~InRange(u, 0) THEN Raise("IndexError")
    ELSE IF ~Contains(_KGS_COLUMNS, GetItem(u, 0)) THEN Raise("ValueError")
    ELSE IF ~IsIntLiteral(Tail(u)) THEN Raise("ValueError")
    ELSE MkTuple(StrToInt(Tail(u)) - 1, Index(_KGS_COLUMNS, GetItem(u, 0)))

from_kgs_noupper(kgsc, N) ==
  IF kgsc = MkStr(<< "p", "a", "s", "s" >>) THEN None
  ELSE LET u == kgsc.s IN
    IF ~InRange(u, 0) THEN Raise("IndexError")
    ELSE IF ~Contains(_KGS_COLUMNS, GetItem(u, 0)) THEN Raise("ValueError")
    ELSE IF ~IsIntLiteral(Tail(u)) THEN Raise("ValueError")
    ELSE MkTuple(N - StrToInt(Tail(u)), Index(_KGS_COLUMNS, GetItem(u, 0)))

from_kgs(kgsc, N) ==
  IF kgsc = MkStr(<< "p", "a", "s", "s" >>) THEN None
  ELSE LET u == Upper(kgsc.s) IN
    IF ~InRange(u, 0) THEN Raise("IndexError")
    ELSE IF ~Contains(_KGS_COLUMNS, GetItem(u, 0)) THEN Raise("ValueError")
    ELSE IF ~IsIntLiteral(Tail(u)) THEN Raise("ValueError")
    ELSE MkTuple(N - StrToInt(Tail(u)), Index(_KGS_COLUMNS, GetItem(u, 0)))

to_kgs_withI(coord, N) ==
  IF IsNone(coord) THEN MkStr(<< "p", "a", "s", "s" >>)
  ELSE IF ~InRange(SubSeq(_SGF_COLUMNS, 27, 52), coord.col) THEN Raise("IndexError")
  ELSE MkStr(<< GetItem(SubSeq(_SGF_COLUMNS, 27, 52), coord.col) >>
             \o IntToStr(N - coord.row))

to_kgs(coord, N) ==
  IF IsNone(coord) THEN MkStr(<< "p", "a", "s", "s" >>)
  ELSE IF ~InRange(_KGS_COLUMNS, coord.col) THEN Raise("IndexError")
  ELSE MkStr(<< GetItem(_KGS_COLUMNS, coord.col) >> \o IntToStr(N - coord.row))

from_sgfmill_offbyone(sgfmillc, N) ==
  IF IsNone(sgfmillc) THEN sgfmillc
  ELSE MkTuple(N - sgfmillc.row, sgfmillc.col)

from_sgfmill(sgfmillc, N) ==
  IF IsNone(sgfmillc) THEN sgfmillc
  ELSE MkTuple(N - 1 - sgfmillc.row, sgfmillc.col)

to_sgfmill_offbyone(coord, N) ==
  IF IsNone(coord) THEN None
  ELSE MkTuple(N - coord.row, coord.col)

to_sgfmill(coord, N) ==
  IF IsNone(coord) THEN None
  ELSE MkTuple(N - 1 - coord.row, coord.col)

(***************************************************************************)
(* Callers.  A caller works in one notation with one board size: it calls  *)
(* a conversion on its input and then the inverse conversion on the result.*)
(* pc: "off" (takes no part), "config" (has not yet set go.BOARD_SIZE),    *)
(* "ready", "encoded" (to_X returned), "roundtrip" (from_X of that         *)
(* returned), "decoded" (from_X returned), "reencoded" (to_X of that       *)
(* returned); for sgfmill, whose two conversions take and return the same  *)
(* type, also "encoded_twice" and "decoded_twice" (the same conversion     *)
(* called on its own result).  A call that raises leaves the caller where  *)
(* the exception put it: it makes no second call.                          *)
(***************************************************************************)
Callers == {"A", "B"}
Notations == {"flat", "sgf", "kgs", "sgfmill"}

IsCoord(v) == IsNone(v) \/ IsTuple(v)
OnBoard(v, N) == IsTuple(v) /\ v.row \in 0..(N - 1) /\ v.col \in 0..(N - 1)

\* {Pass} and the points of the board
Canon(N) == {None} \cup {MkTuple(r, c) : r, c \in 0..(N - 1)}
\* the same, reaching Margin outside the board
CoordInputs(N) ==
  {None} \cup {MkTuple(r, c) : r, c \in (0 - Margin)..(N - 1 + Margin)}
FlatInputs(N) == {MkInt(f) : f \in (0 - Margin)..(N * N + Margin)}

Min(a, b) == IF a < b THEN a ELSE b
SgfLetters(N) == {_SGF_COLUMNS[k] : k \in 1..Min(N + Margin, Len(_SGF_COLUMNS))}
SgfInputs(N) ==
  {None, MkStr(<< >>), MkStr(<< "a" >>), MkStr(<< "a", "a", "a" >>),
   MkStr(<< "a", "1" >>), MkStr(<< "1", "a" >>), MkStr(<< "b", "a", "c" >>)}
  \cup {MkStr(<< x, y >>) : x, y \in SgfLetters(N)}

KgsFirstChars == {_SGF_COLUMNS[k] : k \in 1..Len(_SGF_COLUMNS)} \cup {"1"}
KgsRests(N) ==
  {IntToStr(k) : k \in (0 - Margin)..(N + Margin)}
  \cup {<< >>, << "x" >>, << "+", "1" >>, << "0", "1" >>, << "1", "x" >>,
        << " ", "1" >>, << "1", " " >>, << "0", "_", "1" >>, << "_", "1" >>,
        << "1", "_" >>, << "1", "_", "_", "1" >>, << "+", " ", "1" >>,
        << "1", ".", "0" >>}
KgsInputs(N) ==
  {MkStr(<< >>), MkStr(<< "p", "a", "s", "s" >>), MkStr(<< "P", "A", "S", "S" >>),
   MkStr(<< "P", "a", "s", "s" >>), MkStr(<< "p", "a", "s", "S" >>)}
  \cup {MkStr(<< x >> \o r) : x \in KgsFirstChars, r \in KgsRests(N)}

Inputs(x, N) ==
  CASE x = "flat" -> CoordInputs(N) \cup FlatInputs(N)
    [] x = "sgf" -> CoordInputs(N) \cup SgfInputs(N)
    [] x = "kgs" -> CoordInputs(N) \cup KgsInputs(N)
    [] x = "sgfmill" -> CoordInputs(N)

\* No training run takes part in the coordinate specifications.
NoFile == [run |-> "none", epoch |-> 0, step |-> 0, acc |-> 0]
NoFiles ==
  [last_weights |-> NoFile, best_weights |-> NoFile,
   metrics_train_best |-> NoFile, metrics_eval_best |-> NoFile,
   metrics_train_last |-> NoFile, metrics_eval_last |-> NoFile]
NoIterator == [inits |-> 0, pos |-> 0]
NoSeen == [max |-> 0, subs |-> 0, epochs |-> 0, first |-> TRUE, before |-> 0]

TrainerOff ==
  /\ hp = [train_size |-> 1, dev_size |-> 0, batch_size |-> 1,
           eval_every |-> 1, num_epochs |-> 0]
  /\ restore_from = [kind |-> "None", step |-> 0]
  /\ tpc = "off"
  /\ begin_at_epoch = 0 /\ epoch = 0 /\ sub_i = 0
  /\ split_train_steps = << >> /\ split_eval_steps = << >>
  /\ best_eval_p_acc = 0 /\ eval_p_acc = 0
  /\ train_iterator = NoIterator /\ eval_iterator = NoIterator
  /\ files = NoFiles
  /\ trace = << >>
  /\ seen = NoSeen

\* One caller, A, with go.BOARD_SIZE already set to its board size.
InitOf(nots, maxN) ==
  \E N \in 1..maxN, x \in nots :
    \E v \in Inputs(x, N) :
      /\ BOARD_SIZE = N
      /\ want = [c \in Callers |-> N]
      /\ notation = [c \in Callers |-> x]
      /\ arg = [c \in Callers |-> IF c = "A" THEN v ELSE None]
      /\ mid = [c \in Callers |-> NoCall]
      /\ out = [c \in Callers |-> NoCall]
      /\ pc = [c \in Callers |-> IF c = "A" THEN "ready" ELSE "off"]
      /\ TrainerOff

Init == InitOf(Notations, MaxBoard)

\* The call of conversion number one (result r), and of its inverse.
FirstCall(c, r, stage) ==
  /\ pc[c] = "ready"
  /\ mid' = [mid EXCEPT ![c] = r]
  /\ pc' = [pc EXCEPT ![c] = stage]
  /\ UNCHANGED <<BOARD_SIZE, want, notation, arg, out>>
  /\ UNCHANGED tvars

SecondCall(c, r, stage) ==
  /\ out' = [out EXCEPT ![c] = r]
  /\ pc' = [pc EXCEPT ![c] = stage]
  /\ UNCHANGED <<BOARD_SIZE, want, notation, arg, mid>>
  /\ UNCHANGED tvars

call_to_flat(c) ==
  /\ notation[c] = "flat"
  /\ \/ IsCoord(arg[c]) /\ FirstCall(c, to_flat(arg[c], BOARD_SIZE), "encoded")
     \/ /\ pc[c] = "decoded" /\ IsCoord(mid[c])
        /\ SecondCall(c, to_flat(mid[c], BOARD_SIZE), "reencoded")

call_from_flat(c) ==
  /\ notation[c] = "flat"
  /\ \/ IsInt(arg[c]) /\ FirstCall(c, from_flat(arg[c], BOARD_SIZE), "decoded")
     \/ /\ pc[c] = "encoded" /\ IsInt(mid[c])
        /\ SecondCall(c, from_flat(mid[c], BOARD_SIZE), "roundtrip")

call_to_sgf(c) ==
  /\ notation[c] = "sgf"
  /\ \/ IsCoord(arg[c]) /\ FirstCall(c, to_sgf(arg[c], BOARD_SIZE), "encoded")
     \/ /\ pc[c] = "decoded" /\ IsCoord(mid[c])
        /\ SecondCall(c, to_sgf(mid[c], BOARD_SIZE), "reencoded")

call_from_sgf(c) ==
  /\ notation[c] = "sgf"
  /\ \/ /\ IsNone(arg[c]) \/ IsStr(arg[c])
        /\ FirstCall(c, from_sgf(arg[c], BOARD_SIZE), "decoded")
     \/ /\ pc[c] = "encoded" /\ IsStr(mid[c])
        /\ SecondCall(c, from_sgf(mid[c], BOARD_SIZE), "roundtrip")

call_to_kgs(c) ==
  /\ notation[c] = "kgs"
  /\ \/ IsCoord(arg[c]) /\ FirstCall(c, to_kgs(arg[c], BOARD_SIZE), "encoded")
     \/ /\ pc[c] = "decoded" /\ IsCoord(mid[c])
        /\ SecondCall(c, to_kgs(mid[c], BOARD_SIZE), "reencoded")

call_from_kgs(c) ==
  /\ notation[c] = "kgs"
  /\ \/ IsStr(arg[c]) /\ FirstCall(c, from_kgs(arg[c], BOARD_SIZE), "decoded")
     \/ /\ pc[c] = "encoded" /\ IsStr(mid[c])
        /\ SecondCall(c, from_kgs(mid[c], BOARD_SIZE), "roundtrip")

call_to_sgfmill(c) ==
  /\ notation[c] = "sgfmill"
  /\ \/ IsCoord(arg[c]) /\ FirstCall(c, to_sgfmill(arg[c], BOARD_SIZE), "encoded")
     \/ /\ pc[c] = "decoded" /\ IsCoord(mid[c])
        /\ SecondCall(c, to_sgfmill(mid[c], BOARD_SIZE), "reencoded")
     \/ /\ pc[c] = "encoded" /\ IsCoord(mid[c])
        /\ SecondCall(c, to_sgfmill(mid[c], BOARD_SIZE), "encoded_twice")

call_from_sgfmill(c) ==
  /\ notation[c] = "sgfmill"
  /\ \/ IsCoord(arg[c]) /\ FirstCall(c, from_sgfmill(arg[c], BOARD_SIZE), "decoded")
     \/ /\ pc[c] = "encoded" /\ IsCoord(mid[c])
        /\ SecondCall(c, from_sgfmill(mid[c], BOARD_SIZE), "roundtrip")
     \/ /\ pc[c] = "decoded" /\ IsCoord(mid[c])
        /\ SecondCall(c, from_sgfmill(mid[c], BOARD_SIZE), "decoded_twice")

Next ==
  \E c \in Callers :
    \/ call_to_flat(c)
    \/ call_from_flat(c)
    \/ call_to_sgf(c)
    \/ call_from_sgf(c)
    \/ call_to_kgs(c)
    \/ call_from_kgs(c)
    \/ call_to_sgfmill(c)
    \/ call_from_sgfmill(c)

Spec == Init /\ [][Next]_vars

\* One caller working in a single notation.
NextFlat == \E c \in Callers : call_to_flat(c) \/ call_from_flat(c)
SpecFlat == InitOf({"flat"}, MaxBoard) /\ [][NextFlat]_vars

NextSgf == \E c \in Callers : call_to_sgf(c) \/ call_from_sgf(c)
SpecSgf == InitOf({"sgf"}, MaxBoard) /\ [][NextSgf]_vars

NextKgs == \E c \in Callers : call_to_kgs(c) \/ call_from_kgs(c)
SpecKgs == InitOf({"kgs"}, MaxBoard) /\ [][NextKgs]_vars

NextSgfmill == \E c \in Callers : call_to_sgfmill(c) \/ call_from_sgfmill(c)
SpecSgfmill == InitOf({"sgfmill"}, MaxBoard) /\ [][NextSgfmill]_vars

(***************************************************************************)
(* The legal values of each notation for board size N, and the encoder of  *)
(* a notation.                                                             *)
(***************************************************************************)
InCanon(v, N) == IsNone(v) \/ OnBoard(v, N)

Legal(x, N) ==
  CASE x = "flat" -> {MkInt(f) : f \in 0..(N * N)}
    [] x = "sgf" ->
         {MkStr(<< >>)} \cup
         {MkStr(<< _SGF_COLUMNS[a], _SGF_COLUMNS[b] >>) :
            a, b \in 1..Min(N, Len(_SGF_COLUMNS))}
    [] x = "kgs" ->
         {MkStr(<< "p", "a", "s", "s" >>)} \cup
         {MkStr(<< _KGS_COLUMNS[a] >> \o IntToStr(k)) :
            a \in 1..Min(N, Len(_KGS_COLUMNS)), k \in 1..N}
    [] x = "sgfmill" -> Canon(N)

Enc(x, v, N) ==
  CASE x = "flat" -> to_flat(v, N)
    [] x = "sgf" -> to_sgf(v, N)
    [] x = "kgs" -> to_kgs(v, N)
    [] x = "sgfmill" -> to_sgfmill(v, N)

Image(x, N) == {Enc(x, w, N) : w \in Canon(N)}

\* the board sizes whose every point a notation's alphabet can encode
Encodable(x, N) ==
  CASE x = "sgf" -> N <= Len(_SGF_COLUMNS)
    [] x = "kgs" -> N <= Len(_KGS_COLUMNS)
    [] OTHER -> TRUE

Dec(x, v, N) ==
  CASE x = "flat" -> from_flat(v, N)
    [] x = "sgf" -> from_sgf(v, N)
    [] x = "kgs" -> from_kgs(v, N)
    [] x = "sgfmill" -> from_sgfmill(v, N)

(***************************************************************************)
(* Two callers in one process, each with its own board size.  The board    *)
(* size is the module global go.BOARD_SIZE, so a caller that works with    *)
(* board size n assigns go.BOARD_SIZE = n before its calls; the calls of   *)
(* the two callers interleave in any order.                                *)
(***************************************************************************)
SetBoardSize(c) ==
  /\ pc[c] = "config"
  /\ BOARD_SIZE' = want[c]
  /\ pc' = [pc EXCEPT ![c] = "ready"]
  /\ UNCHANGED <<want, notation, arg, mid, out>>
  /\ UNCHANGED tvars

SharedInputs(x, N) == Canon(N) \cup Legal(x, N)

InitShared ==
  \E b \in 1..MaxShared, w \in [Callers -> 1..MaxShared],
     x \in [Callers -> Notations] :
    \E va \in SharedInputs(x["A"], w["A"]), vb \in SharedInputs(x["B"], w["B"]) :
      /\ BOARD_SIZE = b
      /\ want = w
      /\ notation = x
      /\ arg = [c \in Callers |-> IF c = "A" THEN va ELSE vb]
      /\ mid = [c \in Callers |-> NoCall]
      /\ out = [c \in Callers |-> NoCall]
      /\ pc = [c \in Callers |-> "config"]
      /\ TrainerOff

NextShared == (\E c \in Callers : SetBoardSize(c)) \/ Next

SpecShared == InitShared /\ [][NextShared]_vars

(***************************************************************************)
(* GoTrainer.train_and_evaluate.  Accuracies are integers k standing for   *)
(* k / MaxAcc.  A checkpoint or metrics file is named by the run that      *)
(* wrote it and by the epoch + 1 and i + 1 of the sub-epoch that wrote it. *)
(* tpc: "start", "epoch_head" (the for statement over epochs), "train",    *)
(* "save_last", "evaluate", "save_best", "save_metrics", "done", "raised". *)
(***************************************************************************)
Max(a, b) == IF a > b THEN a ELSE b

\* (size + batch_size - 1) // batch_size
TotalSteps(size, batch_size) == (size + batch_size - 1) \div batch_size

\* int(np.ceil(a / b)), with / the true division of Python 3.
Ceil(a, b) == IF a % b = 0 THEN a \div b ELSE (a \div b) + 1

\* array_split with every part of n // k elements.
ArraySplitLens_floor(n, k) == [j \in 1..k |-> n \div k]

\* [len(l) for l in np.array_split(list(range(n)), k)]: the first n % k
\* parts have n // k + 1 elements, the others n // k.
ArraySplitLens(n, k) ==
  [j \in 1..k |-> IF j <= n % k THEN (n \div k) + 1 ELSE n \div k]

RECURSIVE Sum(_)
Sum(q) == IF Len(q) = 0 THEN 0 ELSE q[1] + Sum(Tail(q))

ThisRun(acc) == [run |-> "this", epoch |-> epoch + 1, step |-> sub_i + 1, acc |-> acc]
PrevRun(step, acc) == [run |-> "prev", epoch |-> 1, step |-> step, acc |-> acc]

\* The files a previous run left in experiment_dir.
PrevFiles(step, acc) ==
  [last_weights |-> PrevRun(step, 0), best_weights |-> PrevRun(step, 0),
   metrics_train_best |-> PrevRun(step, 0), metrics_eval_best |-> PrevRun(step, acc),
   metrics_train_last |-> PrevRun(step, 0), metrics_eval_last |-> PrevRun(step, acc)]

RestoreInputs ==
  {[kind |-> "None", step |-> 0]}
  \cup {[kind |-> k, step |-> n] : k \in {"file", "dir"}, n \in 1..MaxTrainSize}

InitTrainer ==
  /\ BOARD_SIZE = 19
  /\ want = [c \in Callers |-> 19]
  /\ notation = [c \in Callers |-> "flat"]
  /\ arg = [c \in Callers |-> None]
  /\ mid = [c \in Callers |-> NoCall]
  /\ out = [c \in Callers |-> NoCall]
  /\ pc = [c \in Callers |-> "off"]
  /\ hp \in [train_size : 0..MaxTrainSize, dev_size : 0..MaxDevSize,
             batch_size : 1..MaxBatchSize, eval_every : 1..MaxEvalEvery,
             num_epochs : 0..MaxEpochs]
  /\ restore_from \in RestoreInputs
  /\ tpc = "start"
  /\ begin_at_epoch = 0 /\ epoch = 0 /\ sub_i = 0
  /\ split_train_steps = << >> /\ split_eval_steps = << >>
  /\ best_eval_p_acc = 0 /\ eval_p_acc = 0
  /\ train_iterator = NoIterator /\ eval_iterator = NoIterator
  /\ \E a \in 0..MaxAcc :
       files = IF restore_from.kind = "None" THEN NoFiles
               ELSE PrevFiles(restore_from.step, a)
  /\ trace = << >>
  /\ seen = NoSeen

\* Lines 139-174: savers, session, restore, writers; begin_at_epoch is the
\* number after the last '-' of the latest checkpoint's name when restore_from
\* is a directory (the name is after-epoch-<epoch+1>-<i+1>); best_eval_p_acc
\* starts at 0.0 whatever was restored.
Setup ==
  /\ tpc = "start"
  /\ begin_at_epoch' = IF restore_from.kind = "dir" THEN restore_from.step ELSE 0
  /\ epoch' = begin_at_epoch'
  /\ best_eval_p_acc' = 0
  /\ tpc' = "epoch_head"
  /\ UNCHANGED <<hp, restore_from, sub_i, split_train_steps, split_eval_steps,
                 eval_p_acc, train_iterator, eval_iterator, files, trace, seen>>
  /\ UNCHANGED cvars

\* Lines 175-192: the next epoch of range(begin_at_epoch, begin_at_epoch +
\* num_epochs): the step counts of its sub-epochs.  np.array_split raises
\* ValueError when the number of sections is 0 (train_size = 0).
EpochBegin ==
  /\ tpc = "epoch_head"
  /\ epoch < begin_at_epoch + hp.num_epochs
  /\ LET total_train_steps == TotalSteps(hp.train_size, hp.batch_size)
         length == Ceil(total_train_steps, hp.eval_every)
         total_eval_steps == TotalSteps(hp.dev_size, hp.batch_size) IN
     \/ /\ length = 0
        /\ tpc' = "raised"
        /\ UNCHANGED <<split_train_steps, split_eval_steps, sub_i, trace, seen>>
     \/ /\ length > 0
        /\ split_train_steps' = ArraySplitLens(total_train_steps, length)
        /\ split_eval_steps' = ArraySplitLens(total_eval_steps, length)
        /\ sub_i' = 0
        /\ trace' = << >>
        /\ seen' = [seen EXCEPT !.subs = 0]
        /\ tpc' = "train"
  /\ UNCHANGED <<hp, restore_from, begin_at_epoch, epoch, best_eval_p_acc,
                 eval_p_acc, train_iterator, eval_iterator, files>>
  /\ UNCHANGED cvars

\* Line 175: the range is exhausted.
Finish ==
  /\ tpc = "epoch_head"
  /\ epoch >= begin_at_epoch + hp.num_epochs
  /\ tpc' = "done"
  /\ UNCHANGED <<hp, restore_from, begin_at_epoch, epoch, sub_i, split_train_steps,
                 split_eval_steps, best_eval_p_acc, eval_p_acc, train_iterator,
                 eval_iterator, files, trace, seen>>
  /\ UNCHANGED cvars

\* train_epoch / evaluate_epoch on an iterator: initialise it when reset,
\* then consume num_steps batches.
RunIterator(it, num_steps, reset) ==
  [inits |-> IF reset THEN it.inits + 1 ELSE it.inits,
   pos |-> (IF reset THEN 0 ELSE it.pos) + num_steps]

\* Lines 193-202: train_epoch for the t_steps of sub-epoch i, reset = (i == 0).
TrainSubEpoch ==
  /\ tpc = "train"
  /\ train_iterator' =
       RunIterator(train_iterator, split_train_steps[sub_i + 1], sub_i = 0)
  /\ trace' = << "train" >>
  /\ tpc' = "save_last"
  /\ UNCHANGED <<hp, restore_from, begin_at_epoch, epoch, sub_i, split_train_steps,
                 split_eval_steps, best_eval_p_acc, eval_p_acc, eval_iterator,
                 files, seen>>
  /\ UNCHANGED cvars

\* Lines 204-207: last_saver.save.
SaveLastWeights ==
  /\ tpc = "save_last"
  /\ files' = [files EXCEPT !.last_weights = ThisRun(0)]
  /\ trace' = Append(trace, "last_weights")
  /\ tpc' = "evaluate"
  /\ UNCHANGED <<hp, restore_from, begin_at_epoch, epoch, sub_i, split_train_steps,
                 split_eval_steps, best_eval_p_acc, eval_p_acc, train_iterator,
                 eval_iterator, seen>>
  /\ UNCHANGED cvars

\* Lines 209-216: evaluate_epoch for the e_steps of sub-epoch i with the same
\* reset; the metrics are re-initialised on every call, so the accuracy over
\* zero steps is 0.
EvaluateSubEpoch ==
  /\ tpc = "evaluate"
  /\ eval_iterator' =
       RunIterator(eval_iterator, split_eval_steps[sub_i + 1], sub_i = 0)
  /\ \E a \in 0..MaxAcc :
       /\ split_eval_steps[sub_i + 1] = 0 => a = 0
       /\ eval_p_acc' = a
       /\ seen' = [seen EXCEPT !.max = Max(seen.max, a)]
  /\ trace' = Append(trace, "evaluate")
  /\ tpc' = "save_best"
  /\ UNCHANGED <<hp, restore_from, begin_at_epoch, epoch, sub_i, split_train_steps,
                 split_eval_steps, best_eval_p_acc, train_iterator, files>>
  /\ UNCHANGED cvars

\* Line 217 with > for >=.
IsBest_strict(acc, best) == acc > best

\* Line 217: eval_p_acc >= best_eval_p_acc.
IsBest(acc, best) == acc >= best

\* Lines 217-230: the best checkpoint and its two metrics files.
SaveBest ==
  /\ tpc = "save_best"
  /\ IF IsBest(eval_p_acc, best_eval_p_acc)
       THEN /\ best_eval_p_acc' = eval_p_acc
            /\ files' = [files EXCEPT !.best_weights = ThisRun(0),
                                      !.metrics_train_best = ThisRun(0),
                                      !.metrics_eval_best = ThisRun(eval_p_acc)]
            /\ trace' = trace \o << "best_weights", "metrics_train_best",
                                    "metrics_eval_best" >>
       ELSE UNCHANGED <<best_eval_p_acc, files, trace>>
  /\ seen' = [seen EXCEPT !.before = best_eval_p_acc, !.first = FALSE]
  /\ tpc' = "save_metrics"
  /\ UNCHANGED <<hp, restore_from, begin_at_epoch, epoch, sub_i, split_train_steps,
                 split_eval_steps, eval_p_acc, train_iterator, eval_iterator>>
  /\ UNCHANGED cvars

\* Lines 232-238 and the two loop statements: the last metrics files, then
\* the next pair of zip(split_train_steps, split_eval_steps) or the next
\* epoch.
SaveLastMetrics ==
  /\ tpc = "save_metrics"
  /\ files' = [files EXCEPT !.metrics_train_last = ThisRun(0),
                            !.metrics_eval_last = ThisRun(eval_p_acc)]
  /\ trace' = trace \o << "metrics_train_last", "metrics_eval_last" >>
  /\ IF sub_i + 1 < Min(Len(split_train_steps), Len(split_eval_steps))
       THEN /\ sub_i' = sub_i + 1
            /\ epoch' = epoch
            /\ seen' = [seen EXCEPT !.subs = seen.subs + 1]
            /\ tpc' = "train"
       ELSE /\ sub_i' = sub_i
            /\ epoch' = epoch + 1
            /\ seen' = [seen EXCEPT !.subs = seen.subs + 1,
                                    !.epochs = seen.epochs + 1]
            /\ tpc' = "epoch_head"
  /\ UNCHANGED <<hp, restore_from, begin_at_epoch, split_train_steps,
                 split_eval_steps, best_eval_p_acc, eval_p_acc, train_iterator,
                 eval_iterator>>
  /\ UNCHANGED cvars

NextTrainer ==
  \/ Setup
  \/ EpochBegin
  \/ Finish
  \/ TrainSubEpoch
  \/ SaveLastWeights
  \/ EvaluateSubEpoch
  \/ SaveBest
  \/ SaveLastMetrics

SpecTrainer == InitTrainer /\ [][NextTrainer]_vars

(***************************************************************************)
(* Claims.  Caller A is the caller of the single-caller specifications.    *)
(***************************************************************************)

\* C1: flat round trip.  For every board size and every canonical value v
\* (Pass or a point of the board), to_flat(v) is an int and
\* from_flat(to_flat(v)) = v.
C1_FlatRoundTrip ==
  (notation["A"] = "flat" /\ InCanon(arg["A"], BOARD_SIZE)) =>
    /\ pc["A"] = "encoded" => IsInt(mid["A"])
    /\ pc["A"] = "roundtrip" => out["A"] = arg["A"]

C1_Witness ==
  /\ notation["A"] = "flat" /\ BOARD_SIZE = 19 /\ pc["A"] = "roundtrip"
  /\ arg["A"] = MkTuple(0, 18) /\ mid["A"] = MkInt(18) /\ out["A"] = MkTuple(0, 18)

\* C2 as stated: KGS round trip for EVERY board size >= 1: to_kgs(v) is a
\* token and from_kgs(to_kgs(v)) = v for every canonical v; Pass encodes to
\* "pass" and back; the column letter is never I.
KgsRoundTripAt(N) ==
  (notation["A"] = "kgs" /\ BOARD_SIZE = N /\ InCanon(arg["A"], N)) =>
    /\ pc["A"] \in {"encoded", "roundtrip"} =>
         /\ IsStr(mid["A"])
         /\ IsNone(arg["A"]) <=> mid["A"] = MkStr(<< "p", "a", "s", "s" >>)
         /\ OnBoard(arg["A"], N) => mid["A"].s[1] # "I"
    /\ pc["A"] = "roundtrip" => out["A"] = arg["A"]

C2_AnyBoardSize == KgsRoundTripAt(BOARD_SIZE)

\* C2 amended: the KGS round trip holds for every board size in 1..25 (the
\* 25 letters of _KGS_COLUMNS); on a larger board to_kgs raises IndexError
\* for the columns from 25 on.
C2_KgsRoundTrip == BOARD_SIZE <= Len(_KGS_COLUMNS) => KgsRoundTripAt(BOARD_SIZE)

C2_Witness ==
  /\ notation["A"] = "kgs" /\ BOARD_SIZE = 25 /\ pc["A"] = "roundtrip"
  /\ arg["A"] = MkTuple(0, 24) /\ mid["A"] = MkStr(<< "Z", "2", "5" >>)
  /\ out["A"] = MkTuple(0, 24)

\* C3 as stated: SGF round trip for EVERY board size >= 1: to_sgf(v) is a
\* token and from_sgf(to_sgf(v)) = v for every canonical v; Pass encodes to
\* the empty string and back.
SgfRoundTripAt(N) ==
  (notation["A"] = "sgf" /\ BOARD_SIZE = N /\ InCanon(arg["A"], N)) =>
    /\ pc["A"] \in {"encoded", "roundtrip"} =>
         /\ IsStr(mid["A"])
         /\ IsNone(arg["A"]) <=> mid["A"] = MkStr(<< >>)
    /\ pc["A"] = "roundtrip" => out["A"] = arg["A"]

C3_AnyBoardSize == SgfRoundTripAt(BOARD_SIZE)

\* C3 amended: the SGF round trip holds for every board size in 1..52 (the
\* 52 letters of _SGF_COLUMNS); on a larger board to_sgf raises IndexError
\* for the rows and columns from 52 on.
C3_SgfRoundTrip == BOARD_SIZE <= Len(_SGF_COLUMNS) => SgfRoundTripAt(BOARD_SIZE)

C3_Witness ==
  /\ notation["A"] = "sgf" /\ BOARD_SIZE = 52 /\ pc["A"] = "roundtrip"
  /\ arg["A"] = MkTuple(0, 51) /\ mid["A"] = MkStr(<< "Z", "a" >>)
  /\ out["A"] = MkTuple(0, 51)

\* C4: sgfmill round trip.  For every board size and canonical v,
\* from_sgfmill(to_sgfmill(v)) = v; None maps to None in both directions;
\* the encoding of a point of the board is a point of the board.
C4_SgfmillRoundTrip ==
  (notation["A"] = "sgfmill" /\ InCanon(arg["A"], BOARD_SIZE)) =>
    /\ pc["A"] \in {"encoded", "decoded"} =>
         /\ IsNone(arg["A"]) <=> IsNone(mid["A"])
         /\ OnBoard(arg["A"], BOARD_SIZE) => OnBoard(mid["A"], BOARD_SIZE)
    /\ pc["A"] = "roundtrip" => out["A"] = arg["A"]

C4_Witness ==
  /\ notation["A"] = "sgfmill" /\ BOARD_SIZE = 19 /\ pc["A"] = "roundtrip"
  /\ arg["A"] = MkTuple(0, 18) /\ mid["A"] = MkTuple(18, 18)
  /\ out["A"] = MkTuple(0, 18)

\* C5 as stated: for EVERY board size and each notation, the encoder maps
\* the N*N+1 canonical values to N*N+1 distinct values (Pass never shares
\* its encoding with a point), its image is the notation's legal value set,
\* and to_flat(from_flat(f)) = f for every f in 0..N*N.
BijectionAt(x, N) ==
  /\ (notation["A"] = x /\ BOARD_SIZE = N /\ pc["A"] = "encoded"
        /\ OnBoard(arg["A"], N)) =>
       /\ ~IsRaise(mid["A"])
       /\ mid["A"] # Enc(x, None, N)
  /\ (notation["A"] = x /\ BOARD_SIZE = N /\ pc["A"] = "encoded"
        /\ IsNone(arg["A"])) =>
       /\ Cardinality(Image(x, N)) = N * N + 1
       /\ Image(x, N) = Legal(x, N)
  /\ (notation["A"] = x /\ BOARD_SIZE = N /\ x = "flat" /\ pc["A"] = "reencoded"
        /\ IsInt(arg["A"]) /\ arg["A"].i \in 0..(N * N)) =>
       out["A"] = arg["A"]

C5_AnyBoardSize == BijectionAt(notation["A"], BOARD_SIZE)

\* C5 amended: the bijection law holds for flat and sgfmill at every board
\* size, for SGF at board sizes 1..52 and for KGS at board sizes 1..25; on
\* larger boards to_sgf / to_kgs raise IndexError for the points beyond
\* their alphabets.
C5_Bijection ==
  Encodable(notation["A"], BOARD_SIZE) => BijectionAt(notation["A"], BOARD_SIZE)

C5_Witness ==
  /\ notation["A"] = "kgs" /\ BOARD_SIZE = 25 /\ pc["A"] = "encoded"
  /\ IsNone(arg["A"]) /\ mid["A"] = MkStr(<< "p", "a", "s", "s" >>)
  /\ Cardinality(Image("kgs", 25)) = 626

\* C7: from_flat rejects every flat index below 0 or above N*N.
C7_FlatOutOfRangeRejected ==
  (notation["A"] = "flat" /\ pc["A"] = "decoded" /\ IsInt(arg["A"])
     /\ (arg["A"].i < 0 \/ arg["A"].i > BOARD_SIZE * BOARD_SIZE)) =>
    IsRaise(mid["A"])

\* C8: from_flat is the row-major decoding with Pass at N*N: from_flat(N*N)
\* is Pass, and for f in 0..N*N-1 the result (r, c) is on the board with
\* r*N + c = f, r = f div N, c = f mod N.  to_flat((r, c)) = r*N + c lies
\* in 0..N*N-1 and to_flat(v) = N*N exactly when v is Pass.
C8_FlatRowMajor ==
  LET N == BOARD_SIZE
      a == arg["A"]
      m == mid["A"] IN
  /\ (notation["A"] = "flat" /\ pc["A"] = "decoded" /\ IsInt(a)
        /\ a.i \in 0..(N * N)) =>
       /\ a.i = N * N <=> IsNone(m)
       /\ a.i < N * N =>
            /\ OnBoard(m, N)
            /\ m.row * N + m.col = a.i
            /\ m = MkTuple(a.i \div N, a.i % N)
  /\ (notation["A"] = "flat" /\ pc["A"] = "encoded" /\ InCanon(a, N)) =>
       /\ IsInt(m)
       /\ m.i \in 0..(N * N)
       /\ m.i = N * N <=> IsNone(a)
       /\ OnBoard(a, N) => m.i = a.row * N + a.col

C8_Witness ==
  /\ notation["A"] = "flat" /\ BOARD_SIZE = 19 /\ pc["A"] = "decoded"
  /\ arg["A"] = MkInt(18) /\ mid["A"] = MkTuple(0, 18)

\* C9: to_flat rejects every non-Pass pair with a row or column off the
\* board, and never returns the index of another canonical value for it.
C9_OffBoardRejected ==
  (notation["A"] = "flat" /\ pc["A"] = "encoded" /\ IsTuple(arg["A"])
     /\ ~OnBoard(arg["A"], BOARD_SIZE)) =>
    /\ IsRaise(mid["A"])
    /\ mid["A"] \notin Image("flat", BOARD_SIZE)

\* C10: from_kgs rejects a token with a valid column letter and a numeric
\* row outside 1..N, and never returns a row below 0 or above N-1; for a
\* row inside 1..N the canonical row is N - row.
KgsRowToken(v) ==
  /\ IsStr(v)
  /\ v # MkStr(<< "p", "a", "s", "s" >>)
  /\ Len(v.s) > 1
  /\ Contains(_KGS_COLUMNS, UpperChar(v.s[1]))
  /\ IsIntLiteral(Tail(v.s))

C10_KgsRowRejected ==
  (notation["A"] = "kgs" /\ pc["A"] = "decoded" /\ KgsRowToken(arg["A"])) =>
    LET k == StrToInt(Tail(arg["A"].s)) IN
    /\ k \notin 1..BOARD_SIZE => IsRaise(mid["A"])
    /\ IsTuple(mid["A"]) => mid["A"].row \in 0..(BOARD_SIZE - 1)
    /\ k \in 1..BOARD_SIZE => (IsTuple(mid["A"]) /\ mid["A"].row = BOARD_SIZE - k)

\* C6: callers with different board sizes do not interfere.  Every call of a
\* caller returns what it returns when the caller runs alone with its own
\* board size, and the round trip from_X(to_X(v)) of a canonical v returns
\* v, whatever the other caller does in between.
AloneFirst(c) ==
  IF pc[c] \in {"encoded", "roundtrip"}
    THEN Enc(notation[c], arg[c], want[c])
    ELSE Dec(notation[c], arg[c], want[c])

AloneSecond(c) ==
  IF pc[c] = "roundtrip"
    THEN Dec(notation[c], AloneFirst(c), want[c])
    ELSE Enc(notation[c], AloneFirst(c), want[c])

C6_NoInterference ==
  want["A"] # want["B"] =>
    \A c \in Callers :
      /\ pc[c] \in {"encoded", "decoded", "roundtrip", "reencoded"} =>
           mid[c] = AloneFirst(c)
      /\ pc[c] \in {"roundtrip", "reencoded"} => out[c] = AloneSecond(c)
      /\ (pc[c] = "roundtrip" /\ InCanon(arg[c], want[c])) => out[c] = arg[c]

\* C11: the KGS pass literal is recognised in any letter case: from_kgs of
\* "pass", "PASS", "Pass", ... returns Pass and never fails.
C11_PassAnyCase ==
  (notation["A"] = "kgs" /\ pc["A"] = "decoded" /\ IsStr(arg["A"])
     /\ Upper(arg["A"].s) = << "P", "A", "S", "S" >>) =>
    mid["A"] = None

\* C12: from_sgf rejects every non-empty token whose length is not 2 or that
\* holds a character outside a-zA-Z; it never decodes such a token.
C12_SgfMalformedRejected ==
  (notation["A"] = "sgf" /\ pc["A"] = "decoded" /\ IsStr(arg["A"])
     /\ Len(arg["A"].s) > 0
     /\ (Len(arg["A"].s) # 2
           \/ \E k \in 1..Len(arg["A"].s) : ~Contains(_SGF_COLUMNS, arg["A"].s[k]))) =>
    IsRaise(mid["A"])

\* C13: from_sgf and from_kgs never return an off-board coordinate: a token
\* whose letter has an alphabet index >= N is rejected, and every result is
\* Pass or a point of the board.
C13_DecodedOnBoard ==
  LET N == BOARD_SIZE
      a == arg["A"]
      m == mid["A"] IN
  /\ (notation["A"] = "sgf" /\ pc["A"] = "decoded" /\ IsStr(a) /\ Len(a.s) = 2
        /\ Contains(_SGF_COLUMNS, a.s[1]) /\ Contains(_SGF_COLUMNS, a.s[2])
        /\ (Index(_SGF_COLUMNS, a.s[1]) >= N \/ Index(_SGF_COLUMNS, a.s[2]) >= N)) =>
       IsRaise(m)
  /\ (notation["A"] = "kgs" /\ pc["A"] = "decoded" /\ IsStr(a) /\ Len(a.s) > 0
        /\ a # MkStr(<< "p", "a", "s", "s" >>)
        /\ Contains(_KGS_COLUMNS, UpperChar(a.s[1]))
        /\ Index(_KGS_COLUMNS, UpperChar(a.s[1])) >= N) =>
       IsRaise(m)
  /\ (notation["A"] \in {"sgf", "kgs"} /\ pc["A"] = "decoded" /\ ~IsRaise(m)) =>
       InCanon(m, N)

\* C14: from_kgs rejects every non-pass token that is empty, whose first
\* character (upper-cased) is not one of the 25 column letters (I, i, a
\* digit), or whose remaining characters are empty or not a decimal integer
\* (an optional sign and decimal digits).
IsDecimal(s) ==
  LET d == Unsigned(s) IN Len(d) > 0 /\ \A k \in 1..Len(d) : IsDigit(d[k])

C14_KgsUngrammaticalRejected ==
  (notation["A"] = "kgs" /\ pc["A"] = "decoded" /\ IsStr(arg["A"])
     /\ arg["A"] # MkStr(<< "p", "a", "s", "s" >>)
     /\ (\/ Len(arg["A"].s) = 0
         \/ ~Contains(_KGS_COLUMNS, UpperChar(arg["A"].s[1]))
         \/ ~IsDecimal(Tail(arg["A"].s)))) =>
    IsRaise(mid["A"])

\* C15: SGF axis order.  to_sgf((r, c)) is the letter of index c followed by
\* the letter of index r of a-zA-Z; from_sgf of a two-letter token t is
\* (index of t[1], index of t[0]); on a 19x19 board (0,0) <-> "aa" and
\* (0,18) <-> "sa"; a token of two different letters and the token with the
\* letters swapped decode to different points.
C15_SgfAxisOrder ==
  LET N == BOARD_SIZE
      a == arg["A"]
      m == mid["A"] IN
  /\ (notation["A"] = "sgf" /\ pc["A"] = "encoded" /\ OnBoard(a, N)
        /\ N <= Len(_SGF_COLUMNS)) =>
       /\ m = MkStr(<< _SGF_COLUMNS[a.col + 1], _SGF_COLUMNS[a.row + 1] >>)
       /\ (N = 19 /\ a = MkTuple(0, 0)) => m = MkStr(<< "a", "a" >>)
       /\ (N = 19 /\ a = MkTuple(0, 18)) => m = MkStr(<< "s", "a" >>)
  /\ (notation["A"] = "sgf" /\ pc["A"] = "decoded" /\ IsStr(a) /\ Len(a.s) = 2
        /\ Contains(_SGF_COLUMNS, a.s[1]) /\ Contains(_SGF_COLUMNS, a.s[2])) =>
       /\ IsTuple(m)
       /\ m.row \in 0..(Len(_SGF_COLUMNS) - 1) /\ m.col \in 0..(Len(_SGF_COLUMNS) - 1)
       /\ _SGF_COLUMNS[m.row + 1] = a.s[2] /\ _SGF_COLUMNS[m.col + 1] = a.s[1]
       /\ a.s[1] # a.s[2] => m # from_sgf(MkStr(<< a.s[2], a.s[1] >>), N)
       /\ a = MkStr(<< "a", "a" >>) => m = MkTuple(0, 0)
       /\ a = MkStr(<< "s", "a" >>) => m = MkTuple(0, 18)

C15_Witness ==
  /\ notation["A"] = "sgf" /\ BOARD_SIZE = 19 /\ pc["A"] = "encoded"
  /\ arg["A"] = MkTuple(0, 18) /\ mid["A"] = MkStr(<< "s", "a" >>)

\* C16: KGS encoding for board sizes 1..25.  to_kgs((r, c)) is the c-th
\* letter of A-Z without I followed by the decimal number N - r, which lies
\* in 1..N; columns 0..7 give A..H and column 8 gives J, never I; on a 19x19
\* board (0,0) -> "A19", (0,18) -> "T19", Pass -> "pass".
IsDigitString(s) == Len(s) > 0 /\ \A k \in 1..Len(s) : IsDigit(s[k])
IsNumeral(s) == Len(s) > 0 /\ s[1] # "0" /\ \A k \in 1..Len(s) : IsDigit(s[k])

C16_KgsEncoding ==
  LET N == BOARD_SIZE
      a == arg["A"]
      m == mid["A"] IN
  (notation["A"] = "kgs" /\ pc["A"] = "encoded" /\ N <= 25) =>
    /\ OnBoard(a, N) =>
         /\ IsStr(m) /\ Len(m.s) >= 2
         /\ m.s[1] = _KGS_COLUMNS[a.col + 1]
         /\ m.s[1] # "I"
         /\ a.col <= 7 => m.s[1] = << "A", "B", "C", "D", "E", "F", "G", "H" >>[a.col + 1]
         /\ a.col = 8 => m.s[1] = "J"
         /\ IsNumeral(Tail(m.s))
         /\ DigitsToNat(Tail(m.s)) = N - a.row
         /\ DigitsToNat(Tail(m.s)) \in 1..N
    /\ (N = 19 /\ a = MkTuple(0, 0)) => m = MkStr(<< "A", "1", "9" >>)
    /\ (N = 19 /\ a = MkTuple(0, 18)) => m = MkStr(<< "T", "1", "9" >>)
    /\ IsNone(a) => m = MkStr(<< "p", "a", "s", "s" >>)

C16_Witness ==
  /\ notation["A"] = "kgs" /\ BOARD_SIZE = 19 /\ pc["A"] = "encoded"
  /\ arg["A"] = MkTuple(0, 18) /\ mid["A"] = MkStr(<< "T", "1", "9" >>)

\* C17 as stated: for every non-pass KGS token t with a valid column letter
\* and a row of decimal digits whose value is in 1..N, from_kgs of t in lower case
\* equals from_kgs of t in upper case, and to_kgs(from_kgs(t)) is t in
\* upper case.
LowerChar(ch) ==
  IF Contains(SubSeq(_SGF_COLUMNS, 27, 52), ch)
    THEN _SGF_COLUMNS[Index(_SGF_COLUMNS, ch) - 25]
    ELSE ch
Lower(s) == [k \in 1..Len(s) |-> LowerChar(s[k])]

KgsCaseLaw ==
  /\ pc["A"] \in {"decoded", "reencoded"} =>
       /\ IsTuple(mid["A"])
       /\ mid["A"] = from_kgs(MkStr(Lower(arg["A"].s)), BOARD_SIZE)
       /\ mid["A"] = from_kgs(MkStr(Upper(arg["A"].s)), BOARD_SIZE)
  /\ pc["A"] = "reencoded" => out["A"] = MkStr(Upper(arg["A"].s))

C17_AnyDecimalRow ==
  (notation["A"] = "kgs" /\ IsStr(arg["A"]) /\ Len(arg["A"].s) > 1
     /\ arg["A"] # MkStr(<< "p", "a", "s", "s" >>)
     /\ Contains(_KGS_COLUMNS, UpperChar(arg["A"].s[1]))
     /\ IsDigitString(Tail(arg["A"].s))
     /\ DigitsToNat(Tail(arg["A"].s)) \in 1..BOARD_SIZE) =>
    KgsCaseLaw

\* C17 amended: the same, for tokens whose row part is the decimal numeral
\* of a row in 1..N without leading zeros: from_kgs also accepts "A01", and
\* to_kgs turns it into "A1".
C17_KgsCaseInsensitive ==
  (notation["A"] = "kgs" /\ IsStr(arg["A"]) /\ Len(arg["A"].s) > 1
     /\ arg["A"] # MkStr(<< "p", "a", "s", "s" >>)
     /\ Contains(_KGS_COLUMNS, UpperChar(arg["A"].s[1]))
     /\ IsNumeral(Tail(arg["A"].s))
     /\ DigitsToNat(Tail(arg["A"].s)) \in 1..BOARD_SIZE) =>
    KgsCaseLaw

C17_Witness ==
  /\ notation["A"] = "kgs" /\ BOARD_SIZE = 19 /\ pc["A"] = "reencoded"
  /\ arg["A"] = MkStr(<< "a", "1", "9" >>) /\ mid["A"] = MkTuple(0, 0)
  /\ out["A"] = MkStr(<< "A", "1", "9" >>)

\* C18: the sgfmill conversion is one self-inverse transform.  For every
\* pair (r, c), to_sgfmill((r, c)) = from_sgfmill((r, c)) = (N - 1 - r, c),
\* the column is unchanged, and either function applied twice, or one after
\* the other, returns the pair; on a 19x19 board (0,0) <-> (18,0) and
\* (0,18) <-> (18,18).
C18_SgfmillSelfInverse ==
  LET N == BOARD_SIZE
      a == arg["A"]
      m == mid["A"] IN
  (notation["A"] = "sgfmill" /\ IsTuple(a)) =>
    /\ pc["A"] = "encoded" =>
         /\ m = MkTuple(N - 1 - a.row, a.col)
         /\ m = from_sgfmill(a, N)
    /\ pc["A"] = "decoded" =>
         /\ m = MkTuple(N - 1 - a.row, a.col)
         /\ m = to_sgfmill(a, N)
    /\ pc["A"] \in {"encoded_twice", "decoded_twice", "roundtrip", "reencoded"} =>
         out["A"] = a
    /\ (N = 19 /\ pc["A"] \in {"encoded", "decoded"}) =>
         /\ a = MkTuple(0, 0) => m = MkTuple(18, 0)
         /\ a = MkTuple(18, 0) => m = MkTuple(0, 0)
         /\ a = MkTuple(0, 18) => m = MkTuple(18, 18)
         /\ a = MkTuple(18, 18) => m = MkTuple(0, 18)

C18_Witness ==
  /\ notation["A"] = "sgfmill" /\ BOARD_SIZE = 19 /\ pc["A"] = "decoded_twice"
  /\ arg["A"] = MkTuple(18, 0) /\ mid["A"] = MkTuple(0, 0)
  /\ out["A"] = MkTuple(18, 0)

\* The files of the best weights, all three written by the current sub-epoch,
\* or none of them.
BestWritten ==
  /\ files.best_weights = ThisRun(0)
  /\ files.metrics_train_best = ThisRun(0)
  /\ files.metrics_eval_best = ThisRun(eval_p_acc)

BestUntouched ==
  /\ files.best_weights # ThisRun(0)
  /\ files.metrics_train_best # ThisRun(0)
  /\ files.metrics_eval_best # ThisRun(eval_p_acc)

InSubEpoch == tpc \in {"train", "save_last", "evaluate", "save_best", "save_metrics"}

C19_State ==
  /\ (tpc # "start" /\ seen.first) => best_eval_p_acc = 0
  /\ tpc \notin {"start", "save_best"} => best_eval_p_acc = seen.max
  /\ tpc = "save_metrics" =>
       /\ IF eval_p_acc >= seen.before THEN BestWritten ELSE BestUntouched
       /\ files.last_weights = ThisRun(0)
       /\ (epoch = begin_at_epoch /\ sub_i = 0) => BestWritten

C19_Step ==
  /\ best_eval_p_acc' >= best_eval_p_acc
  /\ (tpc = "start" /\ tpc' # "start") => best_eval_p_acc' = 0
  /\ (tpc = "save_metrics" /\ tpc' # "save_metrics") =>
       /\ files'.last_weights = ThisRun(0)
       /\ files'.metrics_train_last = ThisRun(0)
       /\ files'.metrics_eval_last = ThisRun(eval_p_acc)
       /\ files'.best_weights = files.best_weights
       /\ files'.metrics_train_best = files.metrics_train_best
       /\ files'.metrics_eval_best = files.metrics_eval_best

\* C19: within one call of train_and_evaluate, best_eval_p_acc starts at 0,
\* never decreases, and after every sub-epoch is the maximum of 0 and the
\* evaluation policy accuracies seen so far; the best checkpoint and the two
\* metrics_*_best_weights.json files are written in exactly the sub-epochs
\* whose accuracy is >= the running best before the update (a tie
\* overwrites), the last checkpoint and the two metrics_*_last_weights.json
\* files in every sub-epoch; the running best is not restored, so the first
\* sub-epoch of a call, resumed or not, writes the best checkpoint.
C19_BestTracking == [][C19_State /\ C19_State' /\ C19_Step]_vars

\* A resumed call whose second or later sub-epoch ties the running best and
\* overwrites the best checkpoint.
C19_Witness ==
  /\ tpc = "save_metrics" /\ restore_from.kind = "dir" /\ sub_i >= 1
  /\ eval_p_acc = seen.before /\ eval_p_acc > 0
  /\ BestWritten

C20_State ==
  LET T == Ceil(hp.train_size, hp.batch_size)
      E == Ceil(hp.dev_size, hp.batch_size)
      order == << "train", "last_weights", "evaluate" >> IN
  /\ (InSubEpoch /\ hp.train_size > 0) =>
       /\ Len(split_train_steps) = Ceil(T, hp.eval_every)
       /\ Len(split_eval_steps) = Len(split_train_steps)
       /\ Sum(split_train_steps) = T
       /\ \A j \in 1..Len(split_train_steps) :
            split_train_steps[j] \in 1..hp.eval_every
       /\ Sum(split_eval_steps) = E
       /\ sub_i < Len(split_train_steps)
       /\ seen.subs = sub_i
  /\ InSubEpoch =>
       /\ \A k \in 1..Min(Len(trace), 3) : trace[k] = order[k]
       /\ \A k \in 1..Len(trace) : trace[k] = "best_weights" => k = 4
  /\ tpc = "save_metrics" => Len(trace) >= 3
  /\ tpc \notin {"start", "raised"} => epoch = begin_at_epoch + seen.epochs
  /\ epoch <= begin_at_epoch + hp.num_epochs
  /\ tpc = "done" => seen.epochs = hp.num_epochs

C20_Step ==
  LET T == Ceil(hp.train_size, hp.batch_size)
      E == Ceil(hp.dev_size, hp.batch_size) IN
  /\ train_iterator'.inits # train_iterator.inits =>
       /\ tpc = "train" /\ sub_i = 0
       /\ train_iterator'.inits = train_iterator.inits + 1
  /\ eval_iterator'.inits # eval_iterator.inits =>
       /\ tpc = "evaluate" /\ sub_i = 0
       /\ eval_iterator'.inits = eval_iterator.inits + 1
  /\ (tpc = "train" /\ tpc' = "save_last" /\ sub_i = 0) =>
       train_iterator'.inits = seen.epochs + 1
  /\ (tpc = "evaluate" /\ tpc' = "save_best" /\ sub_i = 0) =>
       eval_iterator'.inits = seen.epochs + 1
  /\ (tpc = "save_metrics" /\ tpc' = "epoch_head") =>
       /\ seen'.subs = Ceil(T, hp.eval_every)
       /\ train_iterator.pos = T
       /\ eval_iterator.pos = E
       /\ train_iterator.inits = seen'.epochs
       /\ eval_iterator.inits = seen'.epochs

\* C20: for train_size, batch_size, eval_every > 0 every epoch has
\* ceil(T / eval_every) sub-epochs, T = ceil(train_size / batch_size); the
\* training step counts sum to T and are each in 1..eval_every, the
\* evaluation step counts sum to ceil(dev_size / batch_size), and the pairing
\* of the two lists drops no sub-epoch.  A sub-epoch trains, saves the last
\* weights, evaluates and then possibly saves the best weights; both dataset
\* iterators are initialised in the first sub-epoch of each epoch and never in
\* between; the loop runs exactly num_epochs epochs numbered from
\* begin_at_epoch.
C20_Partitioning == [][C20_State /\ C20_State' /\ C20_Step]_vars

\* A resumed call that ran two epochs of three training steps cut into the
\* sub-epochs 2 + 1.
C20_Witness ==
  /\ tpc = "done" /\ hp.num_epochs = 2 /\ begin_at_epoch > 0
  /\ hp.train_size = 3 /\ hp.batch_size = 1 /\ hp.eval_every = 2 /\ hp.dev_size = 2
  /\ split_train_steps = << 2, 1 >> /\ split_eval_steps = << 1, 1 >>
  /\ train_iterator = [inits |-> 2, pos |-> 3]
  /\ eval_iterator = [inits |-> 2, pos |-> 2]
  /\ seen.epochs = 2

====
